---- MODULE Spec2Model ----
(***************************************************************************)
(* Model of lib/charm/operator/v0/passwd.py: the User / Group entities,    *)
(* the class-level Passwd caches built from /etc/passwd and /etc/group,    *)
(* and the reconciliation operations that call the account tools through   *)
(* subprocess.check_call.                                                  *)
(*                                                                         *)
(* The identity files are sequences of lines.  A line is kept as the list  *)
(* of its colon-separated pieces, which is what line.split(":") gives, the *)
(* last piece carrying the newline; every other text operation (strip,     *)
(* int, str, the split of the member list, re.match) works on the text.    *)
(* Python objects live in two heaps (uobjs, gobjs)                         *)
(* and are referred to by their index, so that "the same object" and "an   *)
(* equal object" are different things.  subprocess.check_call is the       *)
(* boundary to the account tools: every call is logged with its argv, and  *)
(* the tool either exits zero (its effect is applied to the files) or      *)
(* nonzero (CalledProcessError).                                           *)
(***************************************************************************)
EXTENDS Integers, Sequences, FiniteSets, TLC

(***************************************************************************)
(* Bounds of the exploration.                                              *)
(***************************************************************************)
MaxLoads == 2      \* Passwd() constructions per behaviour
MaxOps == 2        \* other calls the caller makes, per behaviour
MaxCalls == 4      \* calls the caller makes in all, per behaviour

(***************************************************************************)
(* Python values that may be None, an int or a str.                        *)
(***************************************************************************)
PyNone == [t |-> "none", i |-> 0, s |-> ""]
PyInt(n) == [t |-> "int", i |-> n, s |-> ""]
PyStr(x) == [t |-> "str", i |-> 0, s |-> x]

\* Python truthiness: None, 0 and "" are falsy.
Truthy(v) == (v.t = "int" /\ v.i # 0) \/ (v.t = "str" /\ v.s # "")

Digits == "0123456789"

Char(s, k) == SubSeq(s, k, k)

DigitVal(c) == CHOOSE d \in 0..9 : Char(Digits, d + 1) = c

\* int(text) for a decimal numeral
RECURSIVE int(_)
int(s) ==
  IF Len(s) = 0 THEN 0
  ELSE 10 * int(SubSeq(s, 1, Len(s) - 1)) + DigitVal(Char(s, Len(s)))

\* str(n) for a non-negative int
RECURSIVE IntStr(_)
IntStr(n) ==
  IF n < 10 THEN Char(Digits, n + 1)
  ELSE IntStr(n \div 10) \o Char(Digits, (n % 10) + 1)

\* str(v) as produced by an f-string
str(v) == IF v.t = "none" THEN "None" ELSE IF v.t = "int" THEN IntStr(v.i) ELSE v.s

IsSpace(c) == c = " " \/ c = "\n"

\* text.strip()
RECURSIVE strip(_)
strip(s) ==
  IF Len(s) = 0 THEN s
  ELSE IF IsSpace(Char(s, 1)) THEN strip(SubSeq(s, 2, Len(s)))
  ELSE IF IsSpace(Char(s, Len(s))) THEN strip(SubSeq(s, 1, Len(s) - 1))
  ELSE s

\* sep.join(fields)
RECURSIVE join(_, _)
join(sep, fields) ==
  IF Len(fields) = 0 THEN ""
  ELSE IF Len(fields) = 1 THEN fields[1]
  ELSE fields[1] \o sep \o join(sep, Tail(fields))

\* The text of a line and line.split(":")
text(line) == join(":", line)

split_colon(line) == line

\* text.split(sep): always at least one field
RECURSIVE SplitFrom(_, _, _, _)
SplitFrom(s, sep, k, cur) ==
  IF k > Len(s) THEN <<cur>>
  ELSE IF Char(s, k) = sep THEN <<cur>> \o SplitFrom(s, sep, k + 1, "")
  ELSE SplitFrom(s, sep, k + 1, cur \o Char(s, k))

split(s, sep) == SplitFrom(s, sep, 1, "")

\* re.match(pattern, text) for a pattern without metacharacters: the
\* pattern has to match at the start of the text, not all of it.
re_match(pattern, txt) ==
  Len(pattern) <= Len(txt) /\ SubSeq(txt, 1, Len(pattern)) = pattern

(***************************************************************************)
(* State.                                                                  *)
(***************************************************************************)
VARIABLES
  etc_passwd,   \* [exists, lines]: /etc/passwd
  etc_group,    \* [exists, lines]: /etc/group
  uobjs,        \* heap of User objects
  gobjs,        \* heap of Group objects
  users,        \* Passwd._users: insertion-ordered <<[key, ref]>>
  groups,       \* Passwd._groups: insertion-ordered <<[key, ref]>>
  op,           \* the last operation called and what came of it
  calls,        \* the check_call invocations of the last operation: [argv, rc]
  instance,     \* the caller holds a Passwd: a Passwd() has returned
  nloads,       \* Passwd() constructions so far
  nops          \* other calls so far

vars == <<etc_passwd, etc_group, uobjs, gobjs, users, groups, op, calls,
          instance, nloads, nops>>

(***************************************************************************)
(* Users / Groups: UserDict with nice errors.  A dict is an insertion-     *)
(* ordered sequence of [key, ref] entries with at most one entry per key.  *)
(***************************************************************************)
DictHas(d, k) == \E e \in 1..Len(d) : d[e].key = k

DictGet(d, k) == d[CHOOSE e \in 1..Len(d) : d[e].key = k].ref

DictKeys(d) == {d[e].key : e \in 1..Len(d)}

\* A store that does not look for the key: every assignment adds an entry
DictSet_append(d, k, r) == Append(d, [key |-> k, ref |-> r])

\* d[k] = r: replaces the value of an existing key in place, appends a new key
DictSet(d, k, r) ==
  IF DictHas(d, k)
  THEN [e \in 1..Len(d) |-> IF d[e].key = k THEN [key |-> k, ref |-> r] ELSE d[e]]
  ELSE Append(d, [key |-> k, ref |-> r])

\* The lookup of a plain dict: the missing key comes out as KeyError
Users_getitem_plain(d, key) ==
  IF DictHas(d, key) THEN [ref |-> DictGet(d, key), err |-> "none"]
  ELSE [ref |-> 0, err |-> "KeyError"]

\* Users.__getitem__: [ref, err]
Users_getitem(d, key) ==
  IF DictHas(d, key) THEN [ref |-> DictGet(d, key), err |-> "none"]
  ELSE [ref |-> 0, err |-> "UserNotFoundError"]

\* Groups.__getitem__: [ref, err]
Groups_getitem(d, key) ==
  IF DictHas(d, key) THEN [ref |-> DictGet(d, key), err |-> "none"]
  ELSE [ref |-> 0, err |-> "GroupNotFoundError"]

(***************************************************************************)
(* Entities.  A member of Group._users is a raw name (str) or a User.      *)
(***************************************************************************)
UserState == {"present", "absent", "disabled", "nologin"}

RawName(n) == [u |-> 0, s |-> n]
UserRef(r) == [u |-> r, s |-> ""]
IsUser(m) == m.u # 0

\* Group.__init__ with a list of user names.  parsed is not a field of the
\* code: it keeps the names the group was built from, for the properties
\* that speak of them.
Group_init(name, usernames, gid) ==
  [name |-> name,
   gid |-> IF Truthy(gid) THEN gid ELSE PyNone,
   users |-> [k \in 1..Len(usernames) |-> RawName(usernames[k])],
   parsed |-> usernames]

\* The part of the program state that loading reads and writes, and the
\* exception that ended it ("none" while it is running normally).
Heap(uo, go, us, gs) == [uobjs |-> uo, gobjs |-> go, users |-> us, groups |-> gs, err |-> "none"]

\* Passwd._parse_groups_line
_parse_groups_line(line) ==
  LET fields == split_colon(line)
      name == fields[1]
      gid == int(fields[3])
      names == split(strip(fields[4]), ",")
      usernames == SelectSeq(names, LAMBDA u : u # "")
  IN Group_init(name, usernames, PyInt(gid))

\* self._groups[group.name] = group, for a group just parsed
StoreGroup(h, group) ==
  [h EXCEPT !.gobjs = Append(h.gobjs, group),
            !.groups = DictSet(h.groups, group.name, Len(h.gobjs) + 1)]

\* Passwd._load_groups, the loop over the lines from line k on
RECURSIVE LoadGroupLines(_, _, _)
LoadGroupLines(h, lines, k) ==
  IF k > Len(lines) THEN h
  ELSE IF strip(text(lines[k])) = "" THEN LoadGroupLines(h, lines, k + 1)
  ELSE LoadGroupLines(StoreGroup(h, _parse_groups_line(lines[k])), lines, k + 1)

\* Passwd._load_groups
_load_groups(h, gfile) ==
  IF ~gfile.exists THEN [h EXCEPT !.err = "GroupError"]
  ELSE LoadGroupLines(h, gfile.lines, 1)

\* Passwd._fetch_groups_for_user
_fetch_groups_for_user(h, gfile) ==
  IF Len(h.groups) = 0 THEN _load_groups(h, gfile) ELSE h

\* The loop of Passwd.group_by_gid over the groups that
\* _fetch_groups_for_user left in h1: the first group in dict order wins
GroupWithGid(h1, gid) ==
  LET hit == {e \in 1..Len(h1.groups) : h1.gobjs[h1.groups[e].ref].gid = PyInt(gid)}
  IN IF h1.err # "none" THEN [h |-> h1, ref |-> 0, err |-> h1.err]
     ELSE IF hit # {}
     THEN [h |-> h1, ref |-> h1.groups[CHOOSE e \in hit : \A f \in hit : e <= f].ref,
           err |-> "none"]
     ELSE [h |-> h1, ref |-> 0, err |-> "GroupNotFoundError"]

\* Passwd.group_by_gid: [h, ref, err]
group_by_gid(h, gfile, gid) == GroupWithGid(_fetch_groups_for_user(h, gfile), gid)

\* The group argument of User.__init__: None, an int or a Group object
ArgNone == [t |-> "none", i |-> 0]
ArgInt(n) == [t |-> "int", i |-> n]
ArgGroup(r) == [t |-> "Group", i |-> r]

\* The primary group User.__init__ settles on: [h, ref, err].  A falsy
\* group (None, 0) leaves primary_group None (ref 0); an int goes through
\* group_by_gid.
PrimaryGroup(h, gfile, group) ==
  LET truthy == group.t = "Group" \/ (group.t = "int" /\ group.i # 0)
  IN IF truthy /\ group.t = "int" THEN group_by_gid(h, gfile, group.i)
     ELSE [h |-> h, ref |-> IF truthy THEN group.i ELSE 0, err |-> "none"]

\* The attributes User.__init__ assigns, given its primary group: [h, obj, err]
UserWith(pg, name, state, homedir, shell, uid, gecos) ==
  [h |-> pg.h,
   err |-> pg.err,
   obj |-> [name |-> name, uid |-> uid, homedir |-> homedir, shell |-> shell,
            state |-> state, gecos |-> gecos,
            primary_group |-> pg.ref, groups |-> <<>>]]

\* User.__init__ (groups=None): [h, obj, err]
User_init(h, gfile, name, state, group, homedir, shell, uid, gecos) ==
  UserWith(PrimaryGroup(h, gfile, group), name, state, homedir, shell, uid, gecos)

\* Passwd._parse_passwd_line: [h, obj, err]
_parse_passwd_line(h, gfile, line) ==
  LET fields == split_colon(line)
      name == fields[1]
      uid == int(fields[3])
      gid == int(fields[4])
      gecos == fields[5]
      homedir == fields[6]
      shell == strip(fields[7])
      state == IF shell = "/usr/sbin/nologin" THEN "nologin" ELSE "present"
  IN User_init(h, gfile, name, state, ArgInt(gid), homedir, shell, PyInt(uid), gecos)

\* self._users[user.name] = user, for r the outcome of _parse_passwd_line;
\* an exception raised by the parse is in flight instead
StoreUser(r) ==
  IF r.err # "none" THEN [r.h EXCEPT !.err = r.err]
  ELSE [r.h EXCEPT !.uobjs = Append(r.h.uobjs, r.obj),
                   !.users = DictSet(r.h.users, r.obj.name, Len(r.h.uobjs) + 1)]

\* Passwd._load_users, the loop over the lines from line k on: it ends at
\* the last line or at the first exception
RECURSIVE LoadUserLines(_, _, _, _)
LoadUserLines(h, gfile, lines, k) ==
  IF k > Len(lines) \/ h.err # "none" THEN h
  ELSE IF strip(text(lines[k])) = "" THEN LoadUserLines(h, gfile, lines, k + 1)
  ELSE LoadUserLines(StoreUser(_parse_passwd_line(h, gfile, lines[k])),
                     gfile, lines, k + 1)

\* A load that goes straight to open(): the missing file comes out as
\* FileNotFoundError
_load_users_unchecked(h, pfile, gfile) ==
  IF ~pfile.exists THEN [h EXCEPT !.err = "FileNotFoundError"]
  ELSE LoadUserLines(h, gfile, pfile.lines, 1)

\* Passwd._load_users
_load_users(h, pfile, gfile) ==
  IF ~pfile.exists THEN [h EXCEPT !.err = "UserError"]
  ELSE LoadUserLines(h, gfile, pfile.lines, 1)

\* Passwd._realize_users, the loop over the dict entries from entry e on.
\* A member name that is not a key of _users raises out of the list
\* comprehension, before the group's list is assigned.
RECURSIVE RealizeFrom(_, _)
RealizeFrom(h, e) ==
  IF e > Len(h.groups) THEN h
  ELSE LET g == h.groups[e].ref
           old == h.gobjs[g].users
           missing == \E k \in 1..Len(old) :
                         ~IsUser(old[k]) /\ Users_getitem(h.users, old[k].s).err # "none"
           new == [k \in 1..Len(old) |->
                     IF ~IsUser(old[k]) THEN UserRef(Users_getitem(h.users, old[k].s).ref)
                     ELSE old[k]]
       IN IF missing THEN [h EXCEPT !.err = "UserNotFoundError"]
          ELSE RealizeFrom([h EXCEPT !.gobjs[g].users = new], e + 1)

\* A lenient pass: a name without a User stays in the list as a string
RECURSIVE RealizeLenientFrom(_, _)
RealizeLenientFrom(h, e) ==
  IF e > Len(h.groups) THEN h
  ELSE LET g == h.groups[e].ref
           old == h.gobjs[g].users
           new == [k \in 1..Len(old) |->
                     IF ~IsUser(old[k]) /\ DictHas(h.users, old[k].s)
                     THEN UserRef(DictGet(h.users, old[k].s))
                     ELSE old[k]]
       IN RealizeLenientFrom([h EXCEPT !.gobjs[g].users = new], e + 1)

_realize_users_lenient(h) == RealizeLenientFrom(h, 1)

_realize_users(h) == RealizeFrom(h, 1)

\* Passwd.__init__ after self._load_groups(): [h, loaded]
InitUsers(h1, pfile, gfile) ==
  IF h1.err = "none" THEN _load_users(h1, pfile, gfile) ELSE h1

\* Passwd.__init__ after self._load_users(): _realize_users runs when
\* both files were read
InitRealize(h2) ==
  IF h2.err = "none" THEN [h |-> _realize_users(h2), loaded |-> TRUE]
  ELSE [h |-> h2, loaded |-> FALSE]

\* Passwd.__init__: [h, loaded]
Passwd_init(h, pfile, gfile) ==
  InitRealize(InitUsers(_load_groups(h, gfile), pfile, gfile))

(***************************************************************************)
(* The account tools behind subprocess.check_call.  A tool exits nonzero   *)
(* when it cannot do what it is asked (and it may fail for reasons of its  *)
(* own); when it exits zero its effect has been applied to the files.      *)
(***************************************************************************)
Field(line, k) == strip(line[k])

\* The lines that hold a record: the tools skip blank lines too
Records(file) == {file.lines[n] : n \in {m \in 1..Len(file.lines) : strip(text(file.lines[m])) # ""}}

NameOf(line) == IF strip(text(line)) = "" THEN "" ELSE Field(line, 1)

\* Field k of every one of the records
FieldsIn(records, k) == {Field(l, k) : l \in records}

NamesIn(file) == FieldsIn(Records(file), 1)

UidsIn(pfile) == {int(f) : f \in FieldsIn(Records(pfile), 3)}

GidsIn(gfile) == {int(f) : f \in FieldsIn(Records(gfile), 3)}

PrimaryGidsIn(pfile) == {int(f) : f \in FieldsIn(Records(pfile), 4)}

\* The gids of the groups of that name
GidsOf(records, name) == {int(Field(l, 3)) : l \in {r \in records : Field(r, 1) = name}}

Max(S) == CHOOSE m \in S : \A n \in S : n <= m

\* The value that follows flag in argv, or None
Opt(argv, flag) ==
  LET at == {k \in 1..(Len(argv) - 1) : argv[k] = PyStr(flag)}
  IN IF at = {} THEN PyNone ELSE argv[(CHOOSE k \in at : TRUE) + 1]

OrElse(v, default) == IF v.t = "none" THEN default ELSE str(v)

\* The line of the user with the shell replaced
WithShell(line, shell) == [line EXCEPT ![7] = shell \o "\n"]

\* The group line without the member
WithoutMember(line, name) ==
  LET members == SelectSeq(split(strip(line[4]), ","), LAMBDA m : m # name)
  IN IF strip(text(line)) = "" THEN line
     ELSE [line EXCEPT ![4] = join(",", members) \o "\n"]

\* Whether the tool can do what argv asks of it
Feasible(argv, pfile, gfile) ==
  LET tool == argv[1].s
      name == argv[Len(argv)].s
  IN /\ \A k \in 1..Len(argv) : argv[k].t # "none"
     /\ CASE tool = "useradd" ->
               /\ pfile.exists /\ name \notin NamesIn(pfile)
               /\ Opt(argv, "-u").t = "int" => Opt(argv, "-u").i \notin UidsIn(pfile)
               /\ Opt(argv, "-g").t = "int" =>
                     gfile.exists /\ Opt(argv, "-g").i \in GidsIn(gfile)
          [] tool = "userdel" -> pfile.exists /\ name \in NamesIn(pfile)
          [] tool = "usermod" -> pfile.exists /\ name \in NamesIn(pfile)
          [] tool = "groupadd" ->
               /\ gfile.exists /\ name \notin NamesIn(gfile)
               /\ Opt(argv, "-g").t = "int" => Opt(argv, "-g").i \notin GidsIn(gfile)
          [] tool = "groupdel" ->
               /\ gfile.exists /\ name \in NamesIn(gfile)
               /\ pfile.exists =>
                    GidsOf(Records(gfile), name) \cap PrimaryGidsIn(pfile) = {}
          [] OTHER -> FALSE

\* /etc/passwd after the tool has exited zero.  usermod -L and -U change
\* the password in /etc/shadow: the "x" of /etc/passwd stays.
PasswdAfter(argv, pfile) ==
  LET tool == argv[1].s
      name == argv[Len(argv)].s
      fresh == PyInt(Max(UidsIn(pfile) \cup {999}) + 1)
      added == <<name, "x",
                 OrElse(Opt(argv, "-u"), str(fresh)),
                 OrElse(Opt(argv, "-g"), "100"),
                 OrElse(Opt(argv, "-c"), ""),
                 OrElse(Opt(argv, "-d"), "/home/" \o name),
                 OrElse(Opt(argv, "-s"), "/bin/sh") \o "\n">>
  IN CASE tool = "useradd" -> [pfile EXCEPT !.lines = Append(@, added)]
       [] tool = "userdel" ->
            [pfile EXCEPT !.lines = SelectSeq(@, LAMBDA l : NameOf(l) # name)]
       [] tool = "usermod" /\ argv[2] = PyStr("-s") ->
            [pfile EXCEPT !.lines =
               [k \in 1..Len(@) |-> IF NameOf(@[k]) = name
                                    THEN WithShell(@[k], argv[3].s) ELSE @[k]]]
       [] OTHER -> pfile

\* /etc/group after the tool has exited zero
GroupAfter(argv, gfile) ==
  LET tool == argv[1].s
      name == argv[Len(argv)].s
      fresh == PyInt(Max(GidsIn(gfile) \cup {999}) + 1)
      added == <<name, "x", OrElse(Opt(argv, "-g"), str(fresh)), "\n">>
  IN CASE tool = "groupadd" -> [gfile EXCEPT !.lines = Append(@, added)]
       [] tool = "groupdel" ->
            [gfile EXCEPT !.lines = SelectSeq(@, LAMBDA l : NameOf(l) # name)]
       [] tool = "userdel" /\ gfile.exists ->
            [gfile EXCEPT !.lines = [k \in 1..Len(@) |-> WithoutMember(@[k], name)]]
       [] OTHER -> gfile

\* What an operation works on: the two files, the log of the check_call
\* invocations (argv and exit status), the exit
\* statuses the tools are going to give (TRUE: zero if the tool can), and
\* the exception in flight.
Ctx(pfile, gfile, exits) ==
  [pfile |-> pfile, gfile |-> gfile, calls |-> <<>>, exits |-> exits, err |-> "none"]

\* The tool has run: it exited zero and changed the files, or it exited
\* nonzero and check_call raises CalledProcessError
Exited(c, argv, zero) ==
  [pfile |-> IF zero THEN PasswdAfter(argv, c.pfile) ELSE c.pfile,
   gfile |-> IF zero THEN GroupAfter(argv, c.gfile) ELSE c.gfile,
   calls |-> Append(c.calls, [argv |-> argv, rc |-> IF zero THEN 0 ELSE 1]),
   exits |-> Tail(c.exits),
   err |-> IF zero THEN "none" ELSE "CalledProcessError"]

\* subprocess.check_call(argv)
check_call(c, argv) ==
  Exited(c, argv, Head(c.exits) /\ Feasible(argv, c.pfile, c.gfile))

\* A handler that swallows the exception: the operation goes on
Handler_pass(d, typed) == [d EXCEPT !.err = "none"]

\* except CalledProcessError as e: raise typed
Handler(d, typed) ==
  IF d.err = "CalledProcessError" THEN [d EXCEPT !.err = typed] ELSE d

\* try: check_call(argv) except CalledProcessError: raise typed
TryCall(c, argv, typed) == Handler(check_call(c, argv), typed)

(***************************************************************************)
(* User: the presence check and the operations behind ensure_state.        *)
(* u is the User object, go the heap of groups, c the context.             *)
(***************************************************************************)
\* The matcher of User._check_if_present
matcher(u, go) ==
  u.name \o ":" \o (IF u.state = "disabled" THEN "!" ELSE "x") \o ":" \o str(u.uid) \o ":"
    \o str(go[u.primary_group].gid) \o ":" \o u.gecos \o ":" \o u.homedir \o ":" \o u.shell

\* The loop of User._check_if_present over the lines of /etc/passwd
found(u, go, pfile) ==
  LET m == matcher(u, go)
  IN \E k \in 1..Len(pfile.lines) : re_match(m, strip(text(pfile.lines[k])))

\* What stops User._check_if_present before it has an answer: the matcher
\* reads self.primary_group.gid, and open() needs the file.
CheckRaises(u, pfile) ==
  IF u.primary_group = 0 THEN "AttributeError"
  ELSE IF ~pfile.exists THEN "FileNotFoundError"
  ELSE "none"

\* The arguments User._add gives to useradd
useradd_args(u, go) ==
  LET argbuilder(x, y) == IF Truthy(y) THEN <<PyStr(x), y>> ELSE <<>>
      gid == IF u.primary_group # 0 THEN go[u.primary_group].gid ELSE PyNone
  IN argbuilder("-g", gid) \o argbuilder("-s", PyStr(u.shell))
       \o argbuilder("-d", PyStr(u.homedir)) \o argbuilder("-u", u.uid)
       \o argbuilder("-c", PyStr(u.gecos))
       \o (IF Truthy(u.uid) /\ u.uid.i < 1000 THEN <<PyStr("-r")>> ELSE <<>>)

\* User._add
_add(u, go, c) ==
  IF CheckRaises(u, c.pfile) # "none" THEN [c EXCEPT !.err = CheckRaises(u, c.pfile)]
  ELSE IF found(u, go, c.pfile) THEN c
  ELSE TryCall(c, <<PyStr("useradd")>> \o useradd_args(u, go) \o <<PyStr(u.name)>>,
               "UserError")

\* User._check_if_present: [c, ret]
_check_if_present(u, go, c, add_if_absent) ==
  IF CheckRaises(u, c.pfile) # "none"
  THEN [c |-> [c EXCEPT !.err = CheckRaises(u, c.pfile)], ret |-> FALSE]
  ELSE IF ~found(u, go, c.pfile) /\ add_if_absent
  THEN [c |-> _add(u, go, c), ret |-> TRUE]
  ELSE [c |-> c, ret |-> found(u, go, c.pfile)]

\* if not self.present: return, and then check_call(argv), for p the
\* outcome of the presence check
RemoveIfPresent(p, argv) ==
  IF p.c.err # "none" \/ ~p.ret THEN p.c
  ELSE TryCall(p.c, argv, "UserError")

\* User._remove
_remove(u, go, c) ==
  RemoveIfPresent(_check_if_present(u, go, c, FALSE),
                  <<PyStr("userdel"), PyStr(u.name)>>)

\* if not self._check_if_present(add_if_absent=True): raise UserError,
\* and then check_call(argv), for p the outcome of the presence check
ModifyIfPresent(p, argv) ==
  IF p.c.err # "none" THEN p.c
  ELSE IF ~p.ret THEN [p.c EXCEPT !.err = "UserError"]
  ELSE TryCall(p.c, argv, "UserError")

\* User._disable_login
_disable_login(u, go, c) ==
  ModifyIfPresent(_check_if_present(u, go, c, TRUE),
                  <<PyStr("usermod"), PyStr("-s"), PyStr("/sbin/nologin"),
                    PyStr(u.name)>>)

\* User._disable_account
_disable_account(u, go, c) ==
  ModifyIfPresent(_check_if_present(u, go, c, TRUE),
                  <<PyStr("usermod"), PyStr("-L"), PyStr(u.name)>>)

\* User._enable_account
_enable_account(u, go, c) ==
  TryCall(c, <<PyStr("usermod"), PyStr("-U"), PyStr(u.name)>>, "UserError")

\* User.ensure_state, up to the assignment of self._state
ensure_state(u, go, c, state) ==
  IF state = "nologin"
  THEN IF u.state = "disabled" THEN _enable_account(u, go, c) ELSE _disable_login(u, go, c)
  ELSE IF state = "disabled" THEN _disable_account(u, go, c)
  ELSE IF state = "present"
  THEN IF u.state = "disabled" THEN _enable_account(u, go, c) ELSE _add(u, go, c)
  ELSE c

\* user.ensure(...): a User has ensure_state and no attribute ensure, so the
\* attribute lookup raises AttributeError before anything is called
User_ensure(u, go, c, state) == [c EXCEPT !.err = "AttributeError"]

\* The setter of User.state: [c, state], the exception and the value of
\* _state it leaves
User_state_setter(u, go, c, state) ==
  IF u.state # state
  THEN [c |-> User_ensure(u, go, c, state), state |-> u.state]
  ELSE [c |-> c, state |-> state]

\* Passwd.add_user
add_user(u, go, c) == User_ensure(u, go, c, "present")

(***************************************************************************)
(* Group: add and remove, and Passwd.add_group.                            *)
(***************************************************************************)
\* Group.add
Group_add(g, c) ==
  TryCall(c, <<PyStr("groupadd"), PyStr("-g"), g.gid, PyStr(g.name)>>, "GroupError")

\* Group.remove
Group_remove(g, c) ==
  TryCall(c, <<PyStr("groupdel"), PyStr(g.name)>>, "GroupError")

\* Passwd.add_group.  The handler formats its message with self.name, and
\* a Passwd has no attribute name: the handler raises AttributeError.
add_group(g, c) ==
  LET args == IF Truthy(g.gid) THEN <<PyStr("-g"), g.gid>> ELSE <<>>
  IN TryCall(c, <<PyStr("groupadd")>> \o args \o <<PyStr(g.name)>>, "AttributeError")

(***************************************************************************)
(* Initial state: the files as the system has them, nothing loaded.        *)
(***************************************************************************)
\* root:x:0:0:root:/root:/bin/bash
RootLine == <<"root", "x", "0", "0", "root", "/root", "/bin/bash\n">>
\* alice:x:1001:1001:Alice:/home/alice:/bin/bash
AliceLine == <<"alice", "x", "1001", "1001", "Alice", "/home/alice", "/bin/bash\n">>
\* alice:x:1001:1001:Alice:/home/alice:/usr/sbin/nologin
AliceNoLoginLine ==
  <<"alice", "x", "1001", "1001", "Alice", "/home/alice", "/usr/sbin/nologin\n">>
BlankLine == <<"\n">>

\* root:x:0:
RootGroupLine == <<"root", "x", "0", "\n">>
\* alice:x:1001:
AliceGroupLine == <<"alice", "x", "1001", "\n">>
\* dev:x:2000:alice
DevGroupLine == <<"dev", "x", "2000", "alice\n">>
\* dev:x:2000:alice,bob
DevBobGroupLine == <<"dev", "x", "2000", "alice,bob\n">>

Missing == [exists |-> FALSE, lines |-> <<>>]
File(lines) == [exists |-> TRUE, lines |-> lines]

RootAlice == File(<<RootLine, BlankLine, AliceLine>>)
Groups3 == File(<<RootGroupLine, AliceGroupLine, DevGroupLine>>)

\* The systems the program starts on: /etc/passwd and /etc/group
Systems ==
  {<<Missing, Groups3>>,
   <<RootAlice, Missing>>,
   <<RootAlice, File(<<>>)>>,
   <<RootAlice, Groups3>>,
   <<RootAlice, File(<<RootGroupLine, AliceGroupLine, DevBobGroupLine>>)>>,
   <<File(<<AliceNoLoginLine>>), Groups3>>}

\* What op says: the operation, the object it was called on, its argument,
\* the exception that came out of it ("none": it returned), what it
\* returned, and what held when it was called: the user's _state (was),
\* whether a line of /etc/passwd had the user's name (listed), and for
\* Passwd() whether both files were read so that _realize_users ran
\* (loaded) and whether the operation before was a Passwd() that returned
\* (again).
Op(name, self, arg, err, ret) ==
  [name |-> name, self |-> self, arg |-> arg, err |-> err, ret |-> ret,
   was |-> "", listed |-> FALSE, loaded |-> FALSE, again |-> FALSE]

Init ==
  /\ \E sys \in Systems : etc_passwd = sys[1] /\ etc_group = sys[2]
  /\ uobjs = <<>>
  /\ gobjs = <<>>
  /\ users = <<>>
  /\ groups = <<>>
  /\ op = Op("", 0, "", "none", 0)
  /\ calls = <<>>
  /\ instance = FALSE
  /\ nloads = 0
  /\ nops = 0

(***************************************************************************)
(* Operations.                                                             *)
(***************************************************************************)
\* An operation makes at most two invocations and stops at the first that
\* exits nonzero.
Exits == {<<FALSE, FALSE>>, <<TRUE, FALSE>>, <<TRUE, TRUE>>}


\* passwd.Passwd()
New_Passwd ==
  /\ nloads < MaxLoads /\ nloads + nops < MaxCalls
  /\ \E r \in {Passwd_init(Heap(uobjs, gobjs, users, groups), etc_passwd, etc_group)} :
        /\ uobjs' = r.h.uobjs
        /\ gobjs' = r.h.gobjs
        /\ users' = r.h.users
        /\ groups' = r.h.groups
        /\ op' = [Op("Passwd", 0, "", r.h.err, 0) EXCEPT
                    !.loaded = r.loaded,
                    !.again = op.name = "Passwd" /\ op.err = "none"]
        /\ instance' = (instance \/ r.h.err = "none")
  /\ calls' = <<>>
  /\ nloads' = nloads + 1
  /\ UNCHANGED <<etc_passwd, etc_group, nops>>

Keys == {"alice", "bob"}

\* Passwd().users[key]
users_getitem ==
  \E key \in Keys :
    /\ instance
    /\ nops < MaxOps /\ nloads + nops < MaxCalls
    /\ LET r == Users_getitem(users, key)
       IN op' = Op("users[]", 0, key, r.err, r.ref)
    /\ calls' = <<>>
    /\ nops' = nops + 1
    /\ UNCHANGED <<etc_passwd, etc_group, uobjs, gobjs, users, groups, instance, nloads>>

\* Passwd().groups[key]
groups_getitem ==
  \E key \in Keys :
    /\ instance
    /\ nops < MaxOps /\ nloads + nops < MaxCalls
    /\ LET r == Groups_getitem(groups, key)
       IN op' = Op("groups[]", 0, key, r.err, r.ref)
    /\ calls' = <<>>
    /\ nops' = nops + 1
    /\ UNCHANGED <<etc_passwd, etc_group, uobjs, gobjs, users, groups, instance, nloads>>

Gids == {0, 1001, 3000}

\* Passwd.group_by_gid(gid)
Passwd_group_by_gid ==
  \E gid \in Gids :
    /\ nops < MaxOps /\ nloads + nops < MaxCalls
    /\ \E r \in {group_by_gid(Heap(uobjs, gobjs, users, groups), etc_group, gid)} :
          /\ gobjs' = r.h.gobjs
          /\ groups' = r.h.groups
          /\ op' = Op("group_by_gid", 0, IntStr(gid), r.err, r.ref)
    /\ calls' = <<>>
    /\ nops' = nops + 1
    /\ UNCHANGED <<etc_passwd, etc_group, uobjs, users, instance, nloads>>

\* User("bob", state, group=..., homedir=..., uid=...)
New_User ==
  \E state \in {"present", "disabled"},
     group \in {ArgNone, ArgInt(1001)},
     homedir \in {"/home/bob"},
     uid \in {PyInt(0), PyInt(1002)} :
    /\ nops < MaxOps /\ nloads + nops < MaxCalls
    /\ group = ArgNone => uid = PyInt(1002)
    /\ \E r \in {User_init(Heap(uobjs, gobjs, users, groups), etc_group,
                          "bob", state, group, homedir, "", uid, "")} :
          /\ gobjs' = r.h.gobjs
          /\ groups' = r.h.groups
          /\ uobjs' = IF r.err = "none" THEN Append(uobjs, r.obj) ELSE uobjs
          /\ op' = Op("User", 0, "bob", r.err, IF r.err = "none" THEN Len(uobjs) + 1 ELSE 0)
    /\ calls' = <<>>
    /\ nops' = nops + 1
    /\ UNCHANGED <<etc_passwd, etc_group, users, instance, nloads>>

\* Group("ops", [], gid=...)
New_Group ==
  \E gid \in {PyNone, PyInt(3000)} :
    /\ nops < MaxOps /\ nloads + nops < MaxCalls
    /\ gobjs' = Append(gobjs, Group_init("ops", <<>>, gid))
    /\ op' = Op("Group", 0, "ops", "none", Len(gobjs) + 1)
    /\ calls' = <<>>
    /\ nops' = nops + 1
    /\ UNCHANGED <<etc_passwd, etc_group, uobjs, users, groups, instance, nloads>>

\* What a tool-calling operation leaves behind
Done(c) ==
  /\ etc_passwd' = c.pfile
  /\ etc_group' = c.gfile
  /\ calls' = c.calls
  /\ nops' = nops + 1
  /\ UNCHANGED <<gobjs, users, groups, instance, nloads>>

UserOp(name, r, arg, c) ==
  [Op(name, r, arg, c.err, 0) EXCEPT
     !.was = uobjs[r].state,
     !.listed = etc_passwd.exists /\ uobjs[r].name \in NamesIn(etc_passwd)]

\* user.ensure_state(state)
User_ensure_state ==
  \E r \in 1..Len(uobjs), state \in UserState, x \in Exits :
    /\ nops < MaxOps /\ nloads + nops < MaxCalls
    /\ \E c \in {ensure_state(uobjs[r], gobjs, Ctx(etc_passwd, etc_group, x), state)} :
          /\ Done(c)
          /\ uobjs' = IF c.err = "none" THEN [uobjs EXCEPT ![r].state = state] ELSE uobjs
          /\ op' = UserOp("ensure_state", r, state, c)

\* user._remove()
User_remove ==
  \E r \in 1..Len(uobjs), x \in Exits :
    /\ nops < MaxOps /\ nloads + nops < MaxCalls
    /\ \E c \in {_remove(uobjs[r], gobjs, Ctx(etc_passwd, etc_group, x))} :
          /\ Done(c)
          /\ uobjs' = uobjs
          /\ op' = UserOp("_remove", r, "", c)

\* user.state = state
User_state_set ==
  \E r \in 1..Len(uobjs), state \in {"present", "disabled"} :
    /\ nops < MaxOps /\ nloads + nops < MaxCalls
    /\ \E s \in {User_state_setter(uobjs[r], gobjs, Ctx(etc_passwd, etc_group, <<>>), state)} :
          /\ Done(s.c)
          /\ uobjs' = [uobjs EXCEPT ![r].state = s.state]
          /\ op' = UserOp("state=", r, state, s.c)

\* Passwd().add_user(user)
Passwd_add_user ==
  \E r \in 1..Len(uobjs) :
    /\ nops < MaxOps /\ nloads + nops < MaxCalls
    /\ instance
    /\ \E c \in {add_user(uobjs[r], gobjs, Ctx(etc_passwd, etc_group, <<>>))} :
          /\ Done(c)
          /\ uobjs' = uobjs
          /\ op' = UserOp("add_user", r, "", c)

\* group.add()
Group_add_call ==
  \E g \in 1..Len(gobjs), x \in Exits :
    /\ nops < MaxOps /\ nloads + nops < MaxCalls
    /\ \E c \in {Group_add(gobjs[g], Ctx(etc_passwd, etc_group, x))} :
          /\ Done(c)
          /\ uobjs' = uobjs
          /\ op' = Op("Group.add", g, "", c.err, 0)

\* group.remove()
Group_remove_call ==
  \E g \in 1..Len(gobjs), x \in Exits :
    /\ nops < MaxOps /\ nloads + nops < MaxCalls
    /\ \E c \in {Group_remove(gobjs[g], Ctx(etc_passwd, etc_group, x))} :
          /\ Done(c)
          /\ uobjs' = uobjs
          /\ op' = Op("Group.remove", g, "", c.err, 0)

\* Passwd().add_group(group)
Passwd_add_group ==
  \E g \in 1..Len(gobjs), x \in Exits :
    /\ nops < MaxOps /\ nloads + nops < MaxCalls
    /\ instance
    /\ \E c \in {add_group(gobjs[g], Ctx(etc_passwd, etc_group, x))} :
          /\ Done(c)
          /\ uobjs' = uobjs
          /\ op' = Op("add_group", g, "", c.err, 0)

Next ==
  \/ New_Passwd
  \/ users_getitem
  \/ groups_getitem
  \/ Passwd_group_by_gid
  \/ New_User
  \/ New_Group
  \/ User_ensure_state
  \/ User_remove
  \/ User_state_set
  \/ Passwd_add_user
  \/ Group_add_call
  \/ Group_remove_call
  \/ Passwd_add_group

Spec == Init /\ [][Next]_vars

TypeOK == nloads \in 0..MaxLoads /\ nops \in 0..MaxOps /\ nloads + nops <= MaxCalls

(***************************************************************************)
(* Properties.                                                             *)
(***************************************************************************)
Argv(words) == [k \in 1..Len(words) |-> PyStr(words[k])]

Unlock(name) == Argv(<<"usermod", "-U", name>>)
Lock(name) == Argv(<<"usermod", "-L", name>>)
ShellChange(name) == Argv(<<"usermod", "-s", "/sbin/nologin", name>>)

IsUseradd(argv, name) == argv[1] = PyStr("useradd") /\ argv[Len(argv)] = PyStr(name)

Self == uobjs[op.self]

NotFoundKinds == {"UserNotFoundError", "GroupNotFoundError"}
OperationFailureKinds == {"UserError", "GroupError"}

UserOps == {"ensure_state", "_remove"}
GroupOps == {"Group.add", "Group.remove", "add_group"}

\* C1: ensure_state(NoLogin) that returns has, on a user that was Disabled,
\* invoked usermod -U and after it usermod -s /sbin/nologin, and on a user
\* in any other state has invoked usermod -s /sbin/nologin and no usermod -U.
C1_UnlockThenShellChange ==
  (op.name = "ensure_state" /\ op.arg = "nologin" /\ op.err = "none") =>
     IF op.was = "disabled"
     THEN \E i, j \in 1..Len(calls) :
             i < j /\ calls[i].argv = Unlock(Self.name) /\ calls[j].argv = ShellChange(Self.name)
     ELSE /\ \A i \in 1..Len(calls) : calls[i].argv # Unlock(Self.name)
          /\ \E j \in 1..Len(calls) : calls[j].argv = ShellChange(Self.name)

\* C2: ensure_state(Present) on a user whose _state is Present and whose
\* name has a line in /etc/passwd makes no invocation and returns.
C2_PresentIsNoOp ==
  (op.name = "ensure_state" /\ op.arg = "present" /\ op.was = "present" /\ op.listed) =>
     (calls = <<>> /\ op.err = "none")

\* C3: ensure_state(Disabled) and ensure_state(NoLogin) on a user without a
\* line in /etc/passwd invoke useradd for the user first, fail only if a tool
\* exits nonzero, and when they return have invoked usermod -L, respectively
\* usermod -s, second.
C3_AbsentIsCreatedFirst ==
  (op.name = "ensure_state" /\ op.arg \in {"disabled", "nologin"}
     /\ etc_passwd.exists /\ ~op.listed) =>
     /\ Len(calls) >= 1 /\ IsUseradd(calls[1].argv, Self.name)
     /\ op.err \in {"none", "UserError"}
     /\ op.err = "UserError" => calls[Len(calls)].rc # 0
     /\ op.err = "none" =>
          /\ Len(calls) = 2
          /\ calls[2].argv = IF op.arg = "disabled" THEN Lock(Self.name)
                             ELSE ShellChange(Self.name)

\* C4: an operation one of whose invocations exited nonzero fails with the
\* typed error of its kind: UserError for the operations of a User,
\* GroupError for Group.add, Group.remove and Passwd.add_group.
C4_NonzeroExitIsTypedError ==
  (\E k \in 1..Len(calls) : calls[k].rc # 0) =>
     /\ op.name \in UserOps => op.err = "UserError"
     /\ op.name \in GroupOps => op.err = "GroupError"

\* C5: a lookup in users (groups) of a name that is not a key fails with
\* UserNotFoundError (GroupNotFoundError), never with KeyError, and a lookup
\* of a key returns the object stored under it.
C5_LookupErrors ==
  /\ op.name = "users[]" =>
       IF \E e \in 1..Len(users) : users[e].key = op.arg
       THEN op.err = "none" /\ \E e \in 1..Len(users) :
                                   users[e].key = op.arg /\ users[e].ref = op.ret
       ELSE op.err = "UserNotFoundError"
  /\ op.name = "groups[]" =>
       IF \E e \in 1..Len(groups) : groups[e].key = op.arg
       THEN op.err = "none" /\ \E e \in 1..Len(groups) :
                                   groups[e].key = op.arg /\ groups[e].ref = op.ret
       ELSE op.err = "GroupNotFoundError"

C5_Witness ==
  /\ op.name = "users[]" /\ op.err = "UserNotFoundError"
  /\ Len(users) > 0 /\ ~DictHas(users, op.arg)

\* C6 as claimed: Passwd() with one of the files absent fails with an error
\* of a kind of its own, neither a not-found kind nor one of the kinds a
\* failed invocation gives.
C6_MissingFileKindOfItsOwn ==
  (op.name = "Passwd" /\ (~etc_passwd.exists \/ ~etc_group.exists)) =>
     op.err \notin {"none"} \cup NotFoundKinds \cup OperationFailureKinds

\* C6: Passwd() fails with GroupError when /etc/group is absent, and with
\* UserError when /etc/group is there and /etc/passwd is absent: the kinds
\* of a failed invocation, and none of the not-found kinds.
C6_MissingFileIsOperationKind ==
  op.name = "Passwd" =>
     /\ ~etc_group.exists => op.err = "GroupError"
     /\ (etc_group.exists /\ ~etc_passwd.exists) => op.err = "UserError"

C6_Witness ==
  op.name = "Passwd" /\ etc_group.exists /\ ~etc_passwd.exists /\ op.err = "UserError"

Members(g) == {gobjs[g].users[k] : k \in 1..Len(gobjs[g].users)}

GroupsOf(u) == {uobjs[u].groups[k] : k \in 1..Len(uobjs[u].groups)}

\* C7: after a Passwd() that returned, a user of the directory is in the
\* member list of a group of the directory exactly if the group is in the
\* user's groups list.
C7_CrossReferenced ==
  (op.name = "Passwd" /\ op.err = "none") =>
     \A ge \in 1..Len(groups), ue \in 1..Len(users) :
        (UserRef(users[ue].ref) \in Members(groups[ge].ref))
          <=> (groups[ge].ref \in GroupsOf(users[ue].ref))

\* C8: after a Passwd() that returned, every member of every group of the
\* directory is a User whose name is among the names the group was parsed
\* with, and it is the object stored under that name in users.
C8_MembersAreDirectoryUsers ==
  (op.name = "Passwd" /\ op.err = "none") =>
     \A ge \in 1..Len(groups) : \A m \in Members(groups[ge].ref) :
        /\ IsUser(m)
        /\ \E k \in 1..Len(gobjs[groups[ge].ref].parsed) :
              gobjs[groups[ge].ref].parsed[k] = uobjs[m.u].name
        /\ \E e \in 1..Len(users) :
              users[e].key = uobjs[m.u].name /\ users[e].ref = m.u

\* A raw name in a member list of the directory that is no key of users
Dangling ==
  \E ge \in 1..Len(groups) : \E m \in Members(groups[ge].ref) :
     ~IsUser(m) /\ ~DictHas(users, m.s)

\* A member of a group line that has no line in /etc/passwd
DanglingInFiles ==
  \E l \in Records(etc_group) :
     \E n \in 1..Len(split(Field(l, 4), ",")) :
        LET name == split(Field(l, 4), ",")[n]
        IN name # "" /\ name \notin NamesIn(etc_passwd)

\* C9 as claimed: when both files are read and a group line names a member
\* without a line in /etc/passwd, Passwd() returns and the name is left in
\* the member list as a string.
C9_DanglingTolerated ==
  (op.name = "Passwd" /\ op.loaded /\ DanglingInFiles) =>
     /\ op.err = "none"
     /\ \E ge \in 1..Len(groups) : \E m \in Members(groups[ge].ref) : ~IsUser(m)

\* C9: when both files are read, Passwd() fails with UserNotFoundError
\* exactly if a member list of the directory names a user that is no key of
\* users, and a Passwd() that returns leaves no string in any member list.
C9_DanglingRaises ==
  (op.name = "Passwd" /\ op.loaded) =>
     /\ op.err = "UserNotFoundError" <=> Dangling
     /\ op.err = "none" =>
          \A ge \in 1..Len(groups) : \A m \in Members(groups[ge].ref) : IsUser(m)

C9_Witness ==
  op.name = "Passwd" /\ op.loaded /\ DanglingInFiles /\ op.err = "UserNotFoundError"

UserPairs == {<<uobjs[users[e].ref].name, uobjs[users[e].ref].uid>> : e \in 1..Len(users)}

GroupPairs == {<<gobjs[groups[e].ref].name, gobjs[groups[e].ref].gid>> : e \in 1..Len(groups)}

\* C10: a Passwd() right after a Passwd() that returned, the files being the
\* same, returns too and leaves the same (name, uid) pairs of users and the
\* same (name, gid) pairs of groups in as many entries; and so does a
\* group_by_gid, which loads the groups again when there are none.
C10_LoadTwice ==
  [][(op.name = "Passwd" /\ op.err = "none") =>
       /\ (op'.name = "Passwd" /\ nloads' = nloads + 1) =>
            /\ op'.err = "none"
            /\ UserPairs' = UserPairs /\ Len(users') = Len(users)
            /\ GroupPairs' = GroupPairs /\ Len(groups') = Len(groups)
       /\ op'.name = "group_by_gid" =>
            GroupPairs' = GroupPairs /\ Len(groups') = Len(groups)]_vars

C10_Witness ==
  /\ op.name = "Passwd" /\ op.again /\ op.err = "none"
  /\ Len(users) > 0 /\ Len(groups) > 0

\* The gids that the lines of /etc/group give to the groups of the directory
KnownGids == {int(Field(l, 3)) : l \in {r \in Records(etc_group) : Field(r, 1) \in DictKeys(groups)}}

\* C11: group_by_gid(gid) returns a group with that gid if a group of the
\* directory has it, fails with GroupNotFoundError exactly if none has it
\* once the groups have been populated from /etc/group, and does not fail
\* in another way.
C11_NotFoundIffUnmatched ==
  op.name = "group_by_gid" =>
     /\ op.err \in {"none", "GroupNotFoundError"}
     /\ op.err = "GroupNotFoundError" <=> int(op.arg) \notin KnownGids
     /\ op.err = "none" => gobjs[op.ret].gid = PyInt(int(op.arg))

\* C12: Group.add and Passwd.add_group invoke groupadd once, with -g and
\* the gid when the group has a gid and with the name alone when it has none.
C12_GidOnlyIfSet ==
  op.name \in {"Group.add", "add_group"} =>
     /\ Len(calls) = 1
     /\ calls[1].argv =
          IF gobjs[op.self].gid = PyNone
          THEN <<PyStr("groupadd"), PyStr(gobjs[op.self].name)>>
          ELSE <<PyStr("groupadd"), PyStr("-g"), gobjs[op.self].gid,
                 PyStr(gobjs[op.self].name)>>

HasFlag(argv, flag) == \E k \in 1..Len(argv) : argv[k] = PyStr(flag)

\* The useradd invocations of the last operation
Useradds == {k \in 1..Len(calls) : calls[k].argv[1] = PyStr("useradd")}

\* C13: a useradd invocation for a user has -g, -s, -d, -u, -c exactly when
\* the user has a primary group, a shell, a home, a uid, a gecos, and then
\* with that value; it has -r exactly when the uid is set and below 1000,
\* 0 included; and the user's name is its last argument.
C13_UseraddFlags ==
  op.name = "ensure_state" =>
     \A k \in Useradds :
        LET argv == calls[k].argv
        IN /\ argv[Len(argv)] = PyStr(Self.name)
           /\ HasFlag(argv, "-g") <=> Self.primary_group # 0
           /\ HasFlag(argv, "-g") => Opt(argv, "-g") = gobjs[Self.primary_group].gid
           /\ HasFlag(argv, "-s") <=> Self.shell # ""
           /\ HasFlag(argv, "-s") => Opt(argv, "-s") = PyStr(Self.shell)
           /\ HasFlag(argv, "-d") <=> Self.homedir # ""
           /\ HasFlag(argv, "-d") => Opt(argv, "-d") = PyStr(Self.homedir)
           /\ HasFlag(argv, "-u") <=> Self.uid # PyNone
           /\ HasFlag(argv, "-u") => Opt(argv, "-u") = Self.uid
           /\ HasFlag(argv, "-c") <=> Self.gecos # ""
           /\ HasFlag(argv, "-c") => Opt(argv, "-c") = PyStr(Self.gecos)
           /\ HasFlag(argv, "-r") <=> (Self.uid # PyNone /\ Self.uid.i < 1000)

\* C14: Passwd.add_user(user) returns; it has invoked useradd for the user
\* when no line of /etc/passwd had the user's name, and has not invoked it
\* when one had.
C14_AddUserAdds ==
  (op.name = "add_user" /\ etc_passwd.exists) =>
     /\ op.err = "none"
     /\ op.listed => Useradds = {}
     /\ ~op.listed => \E k \in Useradds : IsUseradd(calls[k].argv, Self.name)

\* C15: ensure_state(Present) on a user whose _state was Disabled makes one
\* invocation, usermod -U; on a user in another state it makes one
\* invocation, useradd for the user, when no line of /etc/passwd had the
\* user's name, and none when one had; when it returns, _state is Present.
C15_PresentTarget ==
  (op.name = "ensure_state" /\ op.arg = "present" /\ etc_passwd.exists) =>
     /\ IF op.was = "disabled"
        THEN Len(calls) = 1 /\ calls[1].argv = Unlock(Self.name)
        ELSE IF op.listed THEN calls = <<>>
        ELSE Len(calls) = 1 /\ IsUseradd(calls[1].argv, Self.name)
     /\ op.err = "none" => Self.state = "present"

\* C16: ensure_state(Absent) makes no invocation and leaves /etc/passwd,
\* /etc/group and the user object, its _state included, as they were.
C16_AbsentIsNoTransition ==
  [][(op'.name = "ensure_state" /\ op'.arg = "absent" /\ nops' = nops + 1) =>
       /\ calls' = <<>>
       /\ etc_passwd' = etc_passwd /\ etc_group' = etc_group
       /\ uobjs' = uobjs]_vars

\* C17: an ensure_state(t), t one of Present, Disabled, NoLogin, called on a
\* user right after an ensure_state(t) on that user has returned, does not
\* invoke useradd, and returns unless a tool it invokes exits nonzero.
C17_SecondCallSucceeds ==
  [][(/\ op.name = "ensure_state" /\ op.err = "none"
      /\ op.arg \in {"present", "disabled", "nologin"}
      /\ op'.name = "ensure_state" /\ op'.arg = op.arg /\ op'.self = op.self
      /\ nops' = nops + 1) =>
       /\ \A k \in 1..Len(calls') : calls'[k].argv[1] # PyStr("useradd")
       /\ (\A k \in 1..Len(calls') : calls'[k].rc = 0) => op'.err = "none"]_vars

\* C18: an ensure_state one of whose invocations exits nonzero fails with
\* UserError and leaves the user object, its _state included, as it was;
\* the invocation that exited nonzero is its last one, the ones before it
\* exited zero, none of them is a userdel, and an account that useradd
\* created before the failure is still in /etc/passwd.
C18_FailureStopsAndKeepsState ==
  [][(/\ op'.name = "ensure_state" /\ nops' = nops + 1
      /\ \E k \in 1..Len(calls') : calls'[k].rc # 0) =>
       /\ op'.err = "UserError"
       /\ uobjs' = uobjs
       /\ calls'[Len(calls')].rc # 0
       /\ \A k \in 1..(Len(calls') - 1) : calls'[k].rc = 0
       /\ \A k \in 1..Len(calls') : calls'[k].argv[1] \in {PyStr("useradd"), PyStr("usermod")}
       /\ (Len(calls') = 2 /\ calls'[1].argv[1] = PyStr("useradd")) =>
             uobjs[op'.self].name \in NamesIn(etc_passwd')]_vars

C18_Witness ==
  /\ op.name = "ensure_state" /\ op.err = "UserError" /\ Self.state = op.was
  /\ Len(calls) = 2 /\ calls[1].rc = 0 /\ calls[2].rc # 0
  /\ calls[1].argv[1] = PyStr("useradd") /\ Self.name \in NamesIn(etc_passwd)

\* C19: a Passwd() that returns right after an ensure_state(NoLogin) that
\* returned derives the state NoLogin for that user, if the user is among
\* the users.
C19_NoLoginRoundTrip ==
  [][(/\ op.name = "ensure_state" /\ op.arg = "nologin" /\ op.err = "none"
      /\ op'.name = "Passwd" /\ op'.err = "none" /\ nloads' = nloads + 1
      /\ DictHas(users', Self.name)) =>
       /\ Self.state = "nologin"
       /\ uobjs'[DictGet(users', Self.name)].state = "nologin"]_vars

\* C20: after a Passwd() that returned, the keys of users are the names of
\* the lines of /etc/passwd and the keys of groups are the names of the
\* lines of /etc/group.
C20_KeysAreFileNames ==
  (op.name = "Passwd" /\ op.err = "none") =>
     /\ DictKeys(users) = NamesIn(etc_passwd)
     /\ DictKeys(groups) = NamesIn(etc_group)

====
